---- MODULE Spec2Model ----
(***************************************************************************)
(* Model of the wind power forecasting repository:                         *)
(*   src/src/trainer.py  EarlyStopping, Trainer.train, Trainer.fit,        *)
(*                       Trainer.validate, Trainer.report_test_error,      *)
(*                       Trainer.rescale_output                            *)
(*   src/src/model.py    Embedding, Encoder, Decoder, Seq2Seq              *)
(*                                                                         *)
(* Four specifications share the variables:                                *)
(*   SpecES     EarlyStopping alone, any patience and min_delta            *)
(*   SpecTrain  Trainer.train(epochs)                                      *)
(*   SpecMC     Trainer.report_test_error                                  *)
(*   SpecFwd    Seq2Seq.forward (Encoder.forward, then Decoder.forward)    *)
(* Floats are modelled by small naturals; None, an unbound local and NaN   *)
(* are values outside that range.                                          *)
(***************************************************************************)
EXTENDS Integers, Sequences, FiniteSets, TLC

\* ------------------------------------------------------------------ bounds
MaxLoss == 2
MaxEpochs == 12
MaxPatience == 3
MaxDelta == 1
MaxCalls == 6
MaxTestBatches == 2
ValMod == 3
MaxBatch == 2
EncDim == 1
DecDim == 2
InputDim == 2
KNear == 1
EmbdDim == 1
EncLen == 2

\* ------------------------------------------------------- program constants
\* EarlyStopping.__init__ defaults: patience=10, min_delta=0
DefaultPatience == 10
DefaultMinDelta == 0
\* Decoder.forward: for i in range(1, 13); rescale_output: for i in range(12)
DecSteps == 12
\* report_test_error: num_samples = 10
NumSamples == 10

\* Python's None (best_loss before the first call)
None == -1
\* float('nan') in a tensor
NaN == -1
\* a local name that no assignment has bound yet (train_loss before fit)
Unbound == -2

Loss == 0..MaxLoss

Min(a, b) == IF a <= b THEN a ELSE b

VARIABLES
    \* EarlyStopping object and the argument of its last call
    early_stopping, val_loss, ncalls,
    \* Trainer.train
    pc, epochs, epoch, train_loss, weights, model_training, saves, result,
    \* history of Trainer.train kept for the properties
    train_epoch, min_val, nonimproved, best_weights, last_pc,
    \* module modes (nn.Module.training of the two nn.Dropout modules) and autograd
    enc_dropout_training, dec_dropout_training, grad_enabled,
    \* Trainer.report_test_error
    n_batches, counter, mc_predictions, cal_loss_arg, criterion_arg,
    all_y_true, all_y_pred,
    \* Seq2Seq: configuration, generator state, the batch and a second batch
    \* that differs from it in the horizon's target values only
    cfg, drop_seed, one_batch, alt_batch,
    \* Seq2Seq.forward: what Encoder.forward returned, the loop variable of
    \* Decoder.forward, its locals for one_batch (dec) and for alt_batch
    \* (alt), and the returned tensor
    encoder_outputs, enc_hidden, i, dec, alt, y_pred

esVars == <<early_stopping, val_loss, ncalls>>
trVars == <<pc, epochs, epoch, train_loss, weights, saves,
            result, train_epoch, min_val, nonimproved, best_weights, last_pc>>
modeVars == <<model_training, enc_dropout_training, dec_dropout_training,
              grad_enabled>>
mcVars == <<n_batches, counter, mc_predictions, cal_loss_arg, criterion_arg,
            all_y_true, all_y_pred>>
fwVars == <<cfg, drop_seed, one_batch, alt_batch, encoder_outputs, enc_hidden,
            i, dec, alt, y_pred>>
vars == <<esVars, trVars, modeVars, mcVars, fwVars>>

\* ----------------------------------------------------------- EarlyStopping
\* EarlyStopping.__init__
EarlyStoppingNew(patience, min_delta) ==
    [patience   |-> patience,
     min_delta  |-> min_delta,
     counter    |-> 0,
     best_loss  |-> None,
     early_stop |-> FALSE]

\* a faulty variant: the non-improving branch overwrites best_loss as well
EarlyStoppingCall_overwrite(es, v) ==
    IF es.best_loss = None
    THEN [es EXCEPT !.best_loss = v]
    ELSE IF es.best_loss - v > es.min_delta
    THEN [es EXCEPT !.best_loss = v, !.counter = 0]
    ELSE IF es.best_loss - v < es.min_delta
    THEN [es EXCEPT !.best_loss = v,
                    !.counter = es.counter + 1,
                    !.early_stop = (es.early_stop \/ es.counter + 1 >= es.patience)]
    ELSE es

\* EarlyStopping.__call__(val_loss): the object after the call
EarlyStoppingCall(es, v) ==
    IF es.best_loss = None
    THEN [es EXCEPT !.best_loss = v]
    ELSE IF es.best_loss - v > es.min_delta
    THEN [es EXCEPT !.best_loss = v, !.counter = 0]
    ELSE IF es.best_loss - v < es.min_delta
    THEN [es EXCEPT !.counter = es.counter + 1,
                    !.early_stop = (es.early_stop \/ es.counter + 1 >= es.patience)]
    ELSE es

\* the values the Trainer.train variables hold while train is not running
TrainIdle ==
    /\ pc = "idle" /\ epochs = 0 /\ epoch = 0 /\ train_loss = Unbound
    /\ weights = 0 /\ saves = <<>> /\ result = "none"
    /\ train_epoch = 0 /\ min_val = None /\ nonimproved = 0
    /\ best_weights = 0 /\ last_pc = "idle"

\* nn.Module.train(mode) on the whole model: every submodule gets the mode
SetMode(mode) ==
    /\ model_training' = mode
    /\ enc_dropout_training' = mode
    /\ dec_dropout_training' = mode

\* a freshly constructed nn.Module is in training mode, autograd is on
ModeNew ==
    /\ model_training = TRUE /\ enc_dropout_training = TRUE
    /\ dec_dropout_training = TRUE /\ grad_enabled = TRUE

\* the values the report_test_error variables hold while it is not running
MCIdle ==
    /\ n_batches = 0 /\ counter = 0
    /\ mc_predictions = <<>> /\ cal_loss_arg = <<>> /\ criterion_arg = <<>>
    /\ all_y_true = <<>> /\ all_y_pred = <<>>

\* the values the Seq2Seq.forward variables hold while it is not running
FwdIdle ==
    /\ cfg = <<>> /\ drop_seed = 0 /\ one_batch = <<>> /\ alt_batch = <<>>
    /\ encoder_outputs = <<>> /\ enc_hidden = <<>> /\ i = 0
    /\ dec = <<>> /\ alt = <<>> /\ y_pred = <<>>

InitES ==
    /\ FwdIdle
    /\ MCIdle /\ ModeNew
    /\ \E p \in 1..MaxPatience, d \in 0..MaxDelta :
           early_stopping = EarlyStoppingNew(p, d)
    /\ val_loss = None
    /\ ncalls = 0
    /\ TrainIdle

\* one call early_stopping(v)
Call ==
    /\ ncalls < MaxCalls
    /\ \E v \in Loss :
        /\ val_loss' = v
        /\ early_stopping' = EarlyStoppingCall(early_stopping, v)
    /\ ncalls' = ncalls + 1
    /\ UNCHANGED <<trVars, modeVars, mcVars, fwVars>>

NextES == Call

SpecES == InitES /\ [][NextES]_vars

\* ------------------------------------------------------------ Trainer.train
\* train, line 71: early_stopping = EarlyStopping(); epochs is the argument
InitTrain ==
    /\ FwdIdle
    /\ MCIdle /\ ModeNew
    /\ early_stopping = EarlyStoppingNew(DefaultPatience, DefaultMinDelta)
    /\ val_loss = None
    /\ ncalls = 0
    /\ epochs \in 0..MaxEpochs
    /\ pc = "for" /\ epoch = 0 /\ train_loss = Unbound
    /\ weights = 0 /\ saves = <<>> /\ result = "none"
    /\ train_epoch = 0 /\ min_val = None /\ nonimproved = 0
    /\ best_weights = 0 /\ last_pc = "start"

\* line 72: for epoch in range(epochs) ... else
ForEpoch ==
    /\ pc = "for"
    /\ pc' = IF epoch < epochs THEN "fit" ELSE "else"
    /\ last_pc' = pc
    /\ UNCHANGED <<fwVars, mcVars, esVars, epochs, epoch, train_loss, weights, modeVars,
                   saves, result, train_epoch, min_val, nonimproved, best_weights>>

\* line 75 and fit (96-129): model.train(), one optimizer step per batch
Fit ==
    /\ pc = "fit"
    /\ SetMode(TRUE)
    /\ weights' = weights + 1
    /\ \E l \in Loss : train_loss' = l
    /\ train_epoch' = epoch + 1
    /\ pc' = "validate"
    /\ last_pc' = pc
    /\ UNCHANGED <<fwVars, mcVars, esVars, epochs, epoch, saves, result, min_val, nonimproved,
                   best_weights, grad_enabled>>

\* line 80 and validate (131-163): model.eval(), no optimizer step
Validate ==
    /\ pc = "validate"
    /\ SetMode(FALSE)
    /\ \E l \in Loss : val_loss' = l
    /\ pc' = "early_stopping"
    /\ last_pc' = pc
    /\ UNCHANGED <<fwVars, mcVars, early_stopping, ncalls, epochs, epoch, train_loss, weights,
                   grad_enabled, saves, result, train_epoch, min_val, nonimproved, best_weights>>

\* lines 85-86: early_stopping(val_loss); print Best Val Loss
EarlyStoppingUpdate ==
    /\ pc = "early_stopping"
    /\ early_stopping' = EarlyStoppingCall(early_stopping, val_loss)
    /\ ncalls' = ncalls + 1
    /\ min_val' = IF min_val = None THEN val_loss ELSE Min(min_val, val_loss)
    /\ nonimproved' = IF min_val = None \/ val_loss < min_val
                      THEN 0 ELSE nonimproved + 1
    /\ best_weights' = IF min_val = None \/ val_loss < min_val
                       THEN weights ELSE best_weights
    /\ pc' = "check"
    /\ last_pc' = pc
    /\ UNCHANGED <<fwVars, mcVars, val_loss, epochs, epoch, train_loss, weights, modeVars,
                   saves, result, train_epoch>>

\* a faulty variant: the early-stop path breaks without saving
SaveOnBreak_skip(s, w) == s

\* line 89: torch.save(self.model.state_dict(), ...) on the early-stop path
SaveOnBreak(s, w) == Append(s, w)

\* lines 88-90: if early_stop: save, break; otherwise the next epoch
CheckEarlyStop ==
    /\ pc = "check"
    /\ IF early_stopping.early_stop
       THEN /\ saves' = SaveOnBreak(saves, weights)
            /\ pc' = "return"
            /\ epoch' = epoch
       ELSE /\ saves' = saves
            /\ pc' = "for"
            /\ epoch' = epoch + 1
    /\ last_pc' = pc
    /\ UNCHANGED <<fwVars, mcVars, esVars, epochs, train_loss, weights, modeVars, result,
                   train_epoch, min_val, nonimproved, best_weights>>

\* lines 91-92: the for loop's else clause, run when the loop was not broken
ElseSave ==
    /\ pc = "else"
    /\ saves' = Append(saves, weights)
    /\ pc' = "return"
    /\ last_pc' = pc
    /\ UNCHANGED <<fwVars, mcVars, esVars, epochs, epoch, train_loss, weights, modeVars,
                   result, train_epoch, min_val, nonimproved, best_weights>>

\* line 93: return train_loss, train_mae, train_rmse
\* (UnboundLocalError when no epoch ran)
Return ==
    /\ pc = "return"
    /\ IF train_loss = Unbound
       THEN /\ pc' = "raised" /\ result' = "UnboundLocalError"
       ELSE /\ pc' = "done" /\ result' = "returned"
    /\ last_pc' = pc
    /\ UNCHANGED <<fwVars, mcVars, esVars, epochs, epoch, train_loss, weights, modeVars,
                   saves, train_epoch, min_val, nonimproved, best_weights>>

NextTrain ==
    \/ ForEpoch
    \/ Fit
    \/ Validate
    \/ EarlyStoppingUpdate
    \/ CheckEarlyStop
    \/ ElseSave
    \/ Return

SpecTrain == InitTrain /\ [][NextTrain]_vars

\* ------------------------------------------------- Trainer.report_test_error
Horizon == 1..DecSteps
\* the series of a test batch: one per batch
BatchElems == {1}

\* the sum of the numbers f[1], ..., f[n]
RECURSIVE SumTo(_, _)
SumTo(f, n) == IF n = 0 THEN 0 ELSE f[n] + SumTo(f, n - 1)

\* A real number num/den * sqrt(rad), kept exact.
Real(num, den, rad) == [num |-> num, den |-> den, rad |-> rad]

\* self.model(data) on test batch n: a (12, batch) tensor. With every dropout
\* module in eval mode the pass is a function of the batch alone; an active
\* dropout module perturbs it by the noise drawn for the pass.
ModelOutput(n, noise) ==
    [k \in Horizon |-> [b \in BatchElems |-> ((n + k + b) % 3) + noise]]

\* the noise a forward pass can draw under the current module modes
PassNoise ==
    IF enc_dropout_training \/ dec_dropout_training THEN {0, 1} ELSE {0}

\* data[2][:, 1:, 0] of test batch n: a (batch, 12) tensor
YTrue(n) == [b \in BatchElems |-> [k \in Horizon |-> Real((n + 2 * k) % 3, 1, 1)]]

\* a faulty variant: the last pass is scored instead of the mean
MeanPrediction_last(preds) ==
    [k \in Horizon |-> [b \in BatchElems |->
        Real(preds[Len(preds)][k][b], 1, 1)]]

\* lines 198-199: torch.stack(mc_predictions).mean(0), shape (12, batch)
MeanPrediction(preds) ==
    [k \in Horizon |-> [b \in BatchElems |->
        Real(SumTo([j \in 1..Len(preds) |-> preds[j][k][b]], Len(preds)),
             Len(preds), 1)]]

\* line 200: permute(1, 0), (12, batch) to (batch, 12)
Permute(t) == [b \in BatchElems |-> [k \in Horizon |-> t[k][b]]]

\* rescale_output (241-246) on one (batch, 12) tensor: column i (from 0) is
\* multiplied by sqrt(12 - i)
RescaleOutput(y) ==
    [b \in BatchElems |-> [k \in Horizon |->
        [y[b][k] EXCEPT !.rad = y[b][k].rad * (DecSteps - (k - 1))]]]

InitMC ==
    /\ FwdIdle
    /\ early_stopping = EarlyStoppingNew(DefaultPatience, DefaultMinDelta)
    /\ val_loss = None /\ ncalls = 0
    /\ epochs = 0 /\ epoch = 0 /\ train_loss = Unbound
    /\ weights = 0 /\ saves = <<>> /\ result = "none"
    /\ train_epoch = 0 /\ min_val = None /\ nonimproved = 0
    /\ best_weights = 0 /\ last_pc = "start"
    /\ pc = "mc_eval"
    \* the model comes from train() (last in eval mode) or fresh (training)
    /\ model_training \in BOOLEAN
    /\ enc_dropout_training = model_training
    /\ dec_dropout_training = model_training
    /\ grad_enabled = TRUE
    /\ n_batches \in {1, MaxTestBatches}
    /\ counter = 0
    /\ mc_predictions = <<>> /\ cal_loss_arg = <<>> /\ criterion_arg = <<>>
    /\ all_y_true = <<>> /\ all_y_pred = <<>>

mcFrame == <<fwVars, esVars, epochs, epoch, train_loss, weights, saves, train_epoch,
             min_val, nonimproved, best_weights, n_batches>>

\* line 167: self.model.eval()
MCEval ==
    /\ pc = "mc_eval"
    /\ SetMode(FALSE)
    /\ pc' = "mc_apply" /\ last_pc' = pc
    /\ UNCHANGED <<mcFrame, grad_enabled, counter, mc_predictions, cal_loss_arg,
                   criterion_arg, all_y_true, all_y_pred, result>>

\* lines 174-177: self.model.apply(apply_dropout): every module whose type is
\* nn.Dropout is put in training mode; the pair (encoder.dropout.training,
\* decoder.dropout.training) after it
ApplyDropout(e, d) == <<TRUE, TRUE>>

MCApplyDropout ==
    /\ pc = "mc_apply"
    /\ enc_dropout_training' = ApplyDropout(enc_dropout_training,
                                            dec_dropout_training)[1]
    /\ dec_dropout_training' = ApplyDropout(enc_dropout_training,
                                            dec_dropout_training)[2]
    /\ pc' = "mc_no_grad" /\ last_pc' = pc
    /\ UNCHANGED <<mcFrame, model_training, grad_enabled, counter,
                   mc_predictions, cal_loss_arg, criterion_arg, all_y_true,
                   all_y_pred, result>>

\* line 189: with torch.no_grad():
MCNoGrad ==
    /\ pc = "mc_no_grad"
    /\ grad_enabled' = FALSE
    /\ pc' = "mc_batch" /\ last_pc' = pc
    /\ UNCHANGED <<mcFrame, model_training, enc_dropout_training,
                   dec_dropout_training, counter, mc_predictions, cal_loss_arg,
                   criterion_arg, all_y_true, all_y_pred, result>>

\* lines 190-193: the next test batch, or the end of the with block
MCNextBatch ==
    /\ pc = "mc_batch"
    /\ IF counter < n_batches
       THEN /\ counter' = counter + 1
            /\ mc_predictions' = <<>>
            /\ grad_enabled' = grad_enabled
            /\ pc' = "mc_pass"
       ELSE /\ counter' = counter
            /\ mc_predictions' = mc_predictions
            /\ grad_enabled' = TRUE
            /\ pc' = "mc_report"
    /\ last_pc' = pc
    /\ UNCHANGED <<mcFrame, model_training, enc_dropout_training,
                   dec_dropout_training, cal_loss_arg, criterion_arg,
                   all_y_true, all_y_pred, result>>

\* lines 194-196: one of the num_samples forward passes on the batch
MCPass ==
    /\ pc = "mc_pass"
    /\ Len(mc_predictions) < NumSamples
    /\ \E noise \in PassNoise :
           mc_predictions' = Append(mc_predictions, ModelOutput(counter, noise))
    /\ pc' = "mc_pass" /\ last_pc' = pc
    /\ UNCHANGED <<mcFrame, modeVars, counter, cal_loss_arg, criterion_arg,
                   all_y_true, all_y_pred, result>>

\* lines 198-223: mean over the passes, cal_loss on the mean, rescale_output,
\* the criterion on the rescaled tensors, which are also collected
MCScore ==
    /\ pc = "mc_pass"
    /\ Len(mc_predictions) = NumSamples
    /\ LET mean_prediction == Permute(MeanPrediction(mc_predictions))
           rescaled == RescaleOutput(mean_prediction)
       IN  /\ cal_loss_arg' = Append(cal_loss_arg, mean_prediction)
           /\ criterion_arg' = Append(criterion_arg, rescaled)
           /\ all_y_pred' = Append(all_y_pred, rescaled)
    /\ all_y_true' = Append(all_y_true, RescaleOutput(YTrue(counter)))
    /\ pc' = "mc_batch" /\ last_pc' = pc
    /\ UNCHANGED <<mcFrame, modeVars, counter, mc_predictions, result>>

\* lines 225-239: concatenate, average and return
MCReport ==
    /\ pc = "mc_report"
    /\ result' = "returned"
    /\ pc' = "mc_done" /\ last_pc' = pc
    /\ UNCHANGED <<mcFrame, modeVars, counter, mc_predictions, cal_loss_arg,
                   criterion_arg, all_y_true, all_y_pred>>

NextMC ==
    \/ MCEval
    \/ MCApplyDropout
    \/ MCNoGrad
    \/ MCNextBatch
    \/ MCPass
    \/ MCScore
    \/ MCReport

SpecMC == InitMC /\ [][NextMC]_vars

\* ---------------------------------------------------------- Seq2Seq.forward
\* Tensors hold values of Z_ValMod or NaN. The learned functions (nn.GRU,
\* nn.LSTM, nn.Linear, nn.Embedding) are fixed functions over these values:
\* what is modelled of them is which operands they read, the width of what
\* they take and return, and that NaN in any operand makes the result NaN.
Num == 0..(ValMod - 1)

IsNaN(x) == x = NaN

Zeros(n) == [j \in 1..n |-> 0]

HasNaN(v) == \E j \in 1..Len(v) : IsNaN(v[j])

VSum(v) == SumTo(v, Len(v))

\* nn.Linear(in_features, out_features) with weights `salt`
Linear(out, x, salt) ==
    [j \in 1..out |-> IF HasNaN(x) THEN NaN ELSE (VSum(x) + j + salt) % ValMod]

\* torch.tanh, element-wise
Tanh(v) == [j \in 1..Len(v) |-> IF IsNaN(v[j]) THEN NaN ELSE (2 * v[j]) % ValMod]

\* F.softmax over one row: invariant under a shift of the row, so the row
\* minus its minimum stands for it; NaN anywhere makes every weight NaN
Softmax(v) ==
    IF HasNaN(v) THEN [j \in 1..Len(v) |-> NaN]
    ELSE LET m == CHOOSE x \in {v[j] : j \in 1..Len(v)} :
                      \A j \in 1..Len(v) : x <= v[j]
         IN  [j \in 1..Len(v) |-> v[j] - m]

\* one time step of nn.GRU / nn.LSTM with hidden size Len(h): the new hidden
\* and cell state. nn.GRU has no cell state and leaves c as it is.
RnnCell(kind, x, h, c, salt) ==
    IF kind = "GRU"
    THEN [h |-> [j \in 1..Len(h) |->
                    IF HasNaN(x) \/ HasNaN(h) THEN NaN
                    ELSE (VSum(x) + VSum(h) + j + salt) % ValMod],
          c |-> c]
    ELSE [h |-> [j \in 1..Len(h) |->
                    IF HasNaN(x) \/ HasNaN(h) \/ HasNaN(c) THEN NaN
                    ELSE (VSum(x) + VSum(h) + 2 * VSum(c) + j + salt) % ValMod],
          c |-> [j \in 1..Len(c) |->
                    IF HasNaN(x) \/ HasNaN(h) \/ HasNaN(c) THEN NaN
                    ELSE (VSum(x) + VSum(c) + j + 1 + salt) % ValMod]]

\* Embedding.forward (14-16) for one id: a vector of embd_dim values
EmbeddingForward(embd_dim, id) == [j \in 1..embd_dim |-> (id + j) % ValMod]

\* nn.Dropout(p=0.5) on one vector. In eval mode it is the identity; in
\* training mode the generator state `seed` fixes the mask drawn at (step, b),
\* kept entries are scaled by 1/(1-p) = 2, dropped ones multiplied by 0.
Dropout(training, seed, step, b, v) ==
    IF ~training THEN v
    ELSE [j \in 1..Len(v) |->
            IF IsNaN(v[j]) THEN NaN
            ELSE IF (seed + step + b + j) % 2 = 0 THEN (2 * v[j]) % ValMod
            ELSE 0]

FwdElems(batch) == DOMAIN batch.ids

\* Seq2Seq.__init__ (182-193): the input widths of encoder and decoder and the
\* embedding layer, which is None when embedding_dim is 0
EncInputDim == InputDim + KNear - 1

\* a faulty variant: the decoder's RNN is built without the embedding's width
DecoderInputDim_no_embd(embd_dim) == InputDim

\* Decoder.__init__ (91-96): self.dec_input_dim = dec_input_dim + embd_dim
DecoderInputDim(embd_dim) == InputDim + embd_dim

\* width of one encoder output row (46, 107-112)
EncOutDim(c) == IF c.is_bidirectional THEN 2 * EncDim ELSE EncDim

\* Decoder.__init__ (96-112): the declared sizes of the decoder's layers
DecoderLayers(c) ==
    [rnn_in   |-> DecoderInputDim(c.embd_dim),
     attn_in  |-> DecoderInputDim(c.embd_dim) + DecDim,
     attn_out |-> EncLen,
     comb_in  |-> DecoderInputDim(c.embd_dim) + EncOutDim(c),
     comb_out |-> DecoderInputDim(c.embd_dim)]

\* the state of the encoder's RNN after rows 1..t, left to right
RECURSIVE FwdState(_, _, _)
FwdState(kind, xs, t) ==
    IF t = 0 THEN [h |-> Zeros(EncDim), c |-> Zeros(EncDim)]
    ELSE LET p == FwdState(kind, xs, t - 1)
         IN  RnnCell(kind, xs[t], p.h, p.c, 0)

\* the state of the reverse direction after rows Len(xs)..t, right to left
RECURSIVE BwdState(_, _, _)
BwdState(kind, xs, t) ==
    IF t = Len(xs) + 1 THEN [h |-> Zeros(EncDim), c |-> Zeros(EncDim)]
    ELSE LET p == BwdState(kind, xs, t + 1)
         IN  RnnCell(kind, xs[t], p.h, p.c, 1)

\* Encoder.forward (50-77) for batch element b: the rows fed to the RNN
EncoderInput(c, training, seed, batch, b) ==
    [t \in 1..Len(batch.enc[b]) |->
        Dropout(training, seed, t, b,
                IF c.embd_dim > 0
                THEN batch.enc[b][t] \o EmbeddingForward(c.embd_dim, batch.ids[b])
                ELSE batch.enc[b][t])]

\* Encoder.forward (50-77): outputs (one row per encoder time step) and hidden
EncoderForward(c, training, seed, batch) ==
    [outputs |->
        [b \in FwdElems(batch) |->
            LET xs == EncoderInput(c, training, seed, batch, b)
            IN  [t \in 1..Len(xs) |->
                    IF c.is_bidirectional
                    THEN FwdState(c.GRU_LSTM, xs, t).h \o BwdState(c.GRU_LSTM, xs, t).h
                    ELSE FwdState(c.GRU_LSTM, xs, t).h]],
     hidden |->
        [b \in FwdElems(batch) |->
            LET xs == EncoderInput(c, training, seed, batch, b)
            IN  Tanh(Linear(DecDim,
                    IF c.is_bidirectional
                    THEN FwdState(c.GRU_LSTM, xs, Len(xs)).h
                             \o BwdState(c.GRU_LSTM, xs, 1).h
                    ELSE FwdState(c.GRU_LSTM, xs, Len(xs)).h, 0))]]

\* line 125: rnn_input[rnn_input != rnn_input] = 0, on one row
ZeroNaN(v) == [j \in 1..Len(v) |-> IF IsNaN(v[j]) THEN 0 ELSE v[j]]

\* a faulty variant: teacher forcing, the observed target of row i is fed back
NextInput_teacher(row, output) == Tail(row) \o <<row[1]>>

\* lines 163-164: y_[i, :, 1:] joined with the prediction just emitted
NextInput(row, output) == Tail(row) \o output

\* a faulty variant: every step restarts from the encoder's hidden state
ThreadHidden_restart(returned, fed) == fed

\* lines 152/154, 160: the name hidden is rebound to what the RNN returned
ThreadHidden(returned, fed) == returned

\* a faulty variant: the newest prediction is put first
CollectOutput_prepend(list, output) == <<output>> \o list

\* line 167: output_list.append(output)
CollectOutput(list, output) == Append(list, output)

\* torch.bmm(attn_weights.unsqueeze(1), encoder_outputs) for one element:
\* the weighted sum of the encoder output rows
AttnApply(w, outs, width) ==
    [j \in 1..width |->
        IF HasNaN(w) \/ (\E t \in 1..Len(outs) : HasNaN(outs[t])) THEN NaN
        ELSE SumTo([t \in 1..Len(outs) |-> w[t] * outs[t][j]], Len(outs)) % ValMod]

\* Decoder.forward, loop body (131-161) for batch element b at step k, up to
\* the RNN call and the fc layer. err names the exception the body raises.
ElemStep(c, training, seed, batch, outs, st, k, b) ==
    LET lay == DecoderLayers(c)
        x0 == st.rnn_input[b]
        x1 == IF c.embd_dim > 0
              THEN x0 \o EmbeddingForward(c.embd_dim, batch.ids[b])
              ELSE x0
        x2 == Dropout(training, seed, k, b, x1)
        h  == st.hidden[b]
        attn_weights == Softmax(Linear(lay.attn_out, x2 \o h, 1))
        attn_applied == AttnApply(attn_weights, outs[b], EncOutDim(c))
        x3 == IF c.attention_ind
              THEN Linear(lay.comb_out, attn_applied \o x2, 2)
              ELSE x2
        r  == RnnCell(c.GRU_LSTM, x3, h, st.cell_state[b], 2)
        \* what the layers before the RNN raise on these shapes
        early == IF c.attention_ind /\ Len(x2 \o h) # lay.attn_in THEN "shape"
                 ELSE IF c.attention_ind /\ Len(outs[b]) # Len(attn_weights)
                      THEN "bmm"
                 ELSE IF c.attention_ind
                         /\ EncOutDim(c) + Len(x2) # lay.comb_in THEN "shape"
                 ELSE IF ~c.attention_ind /\ Len(x2) # lay.rnn_in THEN "shape"
                 ELSE "none"
    IN  IF early # "none"
        THEN [err |-> early, fed_input |-> <<>>, n_attn |-> 0,
              ret_hidden |-> <<>>, ret_cell |-> <<>>, output |-> <<>>]
        ELSE [err        |-> IF Len(x3) # lay.rnn_in THEN "shape"
                             ELSE IF HasNaN(r.h) THEN "assert"
                             ELSE "none",
              fed_input  |-> x3,
              n_attn     |-> IF c.attention_ind THEN Len(attn_weights) ELSE 0,
              ret_hidden |-> r.h,
              ret_cell   |-> r.c,
              output     |-> Linear(1, r.h, 3)]

\* the exception one step raises for the batch, "none" if it raises none
StepErr(res) ==
    IF \E b \in DOMAIN res : res[b].err = "shape" THEN "shape"
    ELSE IF \E b \in DOMAIN res : res[b].err = "bmm" THEN "bmm"
    ELSE IF \E b \in DOMAIN res : res[b].err = "assert" THEN "assert"
    ELSE "none"

\* Decoder.forward, lines 120-129: the locals before the loop
DecoderStart(batch, hidden) ==
    [rnn_input   |-> [b \in FwdElems(batch) |-> ZeroNaN(batch.dec[b][0])],
     hidden      |-> hidden,
     cell_state  |-> [b \in FwdElems(batch) |-> Zeros(Len(hidden[b]))],
     output_list |-> <<>>,
     err         |-> "none",
     \* what the last step read, fed to the RNN and got back from it
     step_input  |-> <<>>,
     fed_input   |-> <<>>,
     fed_hidden  |-> <<>>,
     fed_cell    |-> <<>>,
     ret_hidden  |-> <<>>,
     ret_cell    |-> <<>>,
     n_attn      |-> 0,
     emitted     |-> <<>>]

\* Decoder.forward, one pass through the loop body (131-167) with i = k
DecoderStep(c, training, seed, batch, outs, st, k) ==
    LET res == [b \in FwdElems(batch) |->
                   ElemStep(c, training, seed, batch, outs, st, k, b)]
        E == FwdElems(batch)
    IN  IF StepErr(res) # "none"
        THEN [st EXCEPT !.err = StepErr(res)]
        ELSE [rnn_input   |-> [b \in E |->
                                  NextInput(batch.dec[b][k], res[b].output)],
              hidden      |-> [b \in E |->
                                  ThreadHidden(res[b].ret_hidden, st.hidden[b])],
              cell_state  |-> [b \in E |-> res[b].ret_cell],
              output_list |-> CollectOutput(st.output_list,
                                            [b \in E |-> res[b].output]),
              err         |-> "none",
              step_input  |-> st.rnn_input,
              fed_input   |-> [b \in E |-> res[b].fed_input],
              fed_hidden  |-> st.hidden,
              fed_cell    |-> st.cell_state,
              ret_hidden  |-> [b \in E |-> res[b].ret_hidden],
              ret_cell    |-> [b \in E |-> res[b].ret_cell],
              n_attn      |-> res[CHOOSE b \in E : TRUE].n_attn,
              emitted     |-> st.emitted @@ (k :> [b \in E |-> res[b].output[1]])]

\* line 169: torch.cat(output_list, dim=1).transpose(0, 1), shape (12, batch)
CatTranspose(list, E) ==
    LET cat == [b \in E |-> [k \in 1..Len(list) |-> list[k][b][1]]]
    IN  [k \in 1..Len(list) |-> [b \in E |-> cat[b][k]]]

\* Seq2Seq.__init__ (175-207): the configurations
Configs ==
    [GRU_LSTM : {"GRU", "LSTM"}, attention_ind : BOOLEAN,
     embd_dim : {0, EmbdDim}, is_bidirectional : BOOLEAN]

\* where a batch holds a NaN: nowhere, in its encoder input, or in row r,
\* channel ch of its decoder tensor (element 1 of the batch)
Holes ==
    {[at |-> "none", r |-> 0, ch |-> 0], [at |-> "enc", r |-> 1, ch |-> 1]}
    \cup [at : {"dec"}, r : {0, 1, DecSteps - 1, DecSteps}, ch : 1..InputDim]

\* a batch (ids, encoder input, decoder tensor) of n_elems series with n_enc
\* encoder time steps and DecSteps + 1 decoder rows; channel 1 of a decoder
\* row is the target, the others are exogenous
MakeBatch(n_elems, n_enc, s, hole) ==
    [ids |-> [b \in 1..n_elems |-> b - 1],
     enc |-> [b \in 1..n_elems |-> [t \in 1..n_enc |->
                [ch \in 1..EncInputDim |->
                    IF hole.at = "enc" /\ b = 1 /\ t = hole.r /\ ch = hole.ch
                    THEN NaN ELSE (s + b + t + ch) % ValMod]]],
     dec |-> [b \in 1..n_elems |-> [r \in 0..DecSteps |->
                [ch \in 1..InputDim |->
                    IF hole.at = "dec" /\ b = 1 /\ r = hole.r /\ ch = hole.ch
                    THEN NaN ELSE (s + b + 2 * r + ch) % ValMod]]]]

\* the batch with other target values in the horizon rows 1..DecSteps
OtherTargets(batch, how) ==
    [batch EXCEPT !.dec =
        [b \in DOMAIN batch.dec |-> [r \in 0..DecSteps |->
            IF r = 0 THEN batch.dec[b][r]
            ELSE [batch.dec[b][r] EXCEPT ![1] =
                    IF how = "nan" \/ IsNaN(@) THEN (IF IsNaN(@) THEN 0 ELSE NaN)
                    ELSE (@ + 1) % ValMod]]]]

InitFwd ==
    /\ MCIdle
    /\ early_stopping = EarlyStoppingNew(DefaultPatience, DefaultMinDelta)
    /\ val_loss = None /\ ncalls = 0
    /\ epochs = 0 /\ epoch = 0 /\ train_loss = Unbound
    /\ weights = 0 /\ saves = <<>> /\ result = "none"
    /\ train_epoch = 0 /\ min_val = None /\ nonimproved = 0
    /\ best_weights = 0 /\ last_pc = "start"
    /\ pc = "encoder"
    /\ cfg \in Configs
    \* fit calls the model in training mode, validate in eval mode
    /\ model_training \in BOOLEAN
    /\ enc_dropout_training = model_training
    /\ dec_dropout_training = model_training
    /\ grad_enabled = model_training
    /\ drop_seed \in (IF model_training THEN {0, 1} ELSE {0})
    /\ \E n_elems \in {1, MaxBatch}, n_enc \in {EncLen - 1, EncLen, EncLen + 1},
          s \in {0, 1}, hole \in Holes, how \in {"shift", "nan"} :
          /\ n_enc >= 1
          /\ one_batch = MakeBatch(n_elems, n_enc, s, hole)
          /\ alt_batch = OtherTargets(one_batch, how)
    /\ encoder_outputs = <<>> /\ enc_hidden = <<>> /\ i = 0
    /\ dec = <<>> /\ alt = <<>> /\ y_pred = <<>>

fwFrame == <<esVars, epochs, epoch, train_loss, weights, saves, result,
             train_epoch, min_val, nonimproved, best_weights, modeVars, mcVars,
             cfg, drop_seed, one_batch, alt_batch>>

\* Seq2Seq.forward, line 210: encoder_outputs, hidden = self.encoder(one_batch)
SeqEncoder ==
    /\ pc = "encoder"
    /\ LET e == EncoderForward(cfg, enc_dropout_training, drop_seed, one_batch)
       IN  /\ encoder_outputs' = e.outputs
           /\ enc_hidden' = e.hidden
    /\ pc' = "decoder" /\ last_pc' = pc
    /\ UNCHANGED <<fwFrame, i, dec, alt, y_pred>>

\* Seq2Seq.forward, line 212, into Decoder.forward up to its loop (120-130)
SeqDecoder ==
    /\ pc = "decoder"
    /\ dec' = DecoderStart(one_batch, enc_hidden)
    /\ alt' = DecoderStart(alt_batch, enc_hidden)
    /\ i' = 1
    /\ pc' = "step" /\ last_pc' = pc
    /\ UNCHANGED <<fwFrame, encoder_outputs, enc_hidden, y_pred>>

\* Decoder.forward, lines 130-167: the loop body for the current i, on the
\* batch and, with the same generator state, on the second batch
SeqStep ==
    /\ pc = "step"
    /\ i <= DecSteps
    /\ dec' = DecoderStep(cfg, dec_dropout_training, drop_seed, one_batch,
                          encoder_outputs, dec, i)
    /\ alt' = DecoderStep(cfg, dec_dropout_training, drop_seed, alt_batch,
                          encoder_outputs, alt, i)
    /\ IF dec'.err = "none"
       THEN i' = i + 1 /\ pc' = "step"
       ELSE i' = i /\ pc' = "fwd_raised"
    /\ last_pc' = pc
    /\ UNCHANGED <<fwFrame, encoder_outputs, enc_hidden, y_pred>>

\* Decoder.forward, lines 169-171, and Seq2Seq.forward, line 214
SeqReturn ==
    /\ pc = "step"
    /\ i > DecSteps
    /\ y_pred' = CatTranspose(dec.output_list, FwdElems(one_batch))
    /\ pc' = "fwd_done" /\ last_pc' = pc
    /\ UNCHANGED <<fwFrame, encoder_outputs, enc_hidden, i, dec, alt>>

NextFwd ==
    \/ SeqEncoder
    \/ SeqDecoder
    \/ SeqStep
    \/ SeqReturn

SpecFwd == InitFwd /\ [][NextFwd]_vars

\* number of epochs train has run through fit, validate and the early-stopping
\* update when it leaves the loop
Executed == IF early_stopping.early_stop THEN epoch + 1 ELSE epoch

TrainEnded == pc \in {"done", "raised"}

\* ------------------------------------------------------------------ claims

\* C5 (as claimed): train stops before epoch `epochs` exactly at the first
\* epoch by whose end the validation loss has failed to improve on the best
\* so far for 10 consecutive epochs, and in no other case: after every
\* early-stopping update, early_stop is set iff the last 10 epochs all failed
\* to improve, and train never runs more than `epochs` epochs.
C5_StopsExactlyAfterPatienceFailures ==
    /\ epoch <= epochs
    /\ weights <= epochs
    /\ pc = "check" =>
          (early_stopping.early_stop <=> nonimproved >= DefaultPatience)
    /\ (pc \in {"return", "done"} /\ weights < epochs) =>
          nonimproved >= DefaultPatience

\* C7 (as claimed): per EarlyStopping call, the first call stores val_loss and
\* leaves counter at 0; a later call either improves (best_loss - val_loss >
\* min_delta: best_loss becomes val_loss, counter becomes 0) or it is a
\* non-improving call and increments counter by exactly one; early_stop is
\* set on the call at which counter reaches patience.
C7_CallTransition ==
    [][ncalls' = ncalls + 1 =>
        IF early_stopping.best_loss = None
        THEN /\ early_stopping'.best_loss = val_loss'
             /\ early_stopping'.counter = 0
        ELSE IF early_stopping.best_loss - val_loss' > early_stopping.min_delta
        THEN /\ early_stopping'.best_loss = val_loss'
             /\ early_stopping'.counter = 0
        ELSE /\ early_stopping'.counter = early_stopping.counter + 1
             /\ early_stopping'.best_loss = early_stopping.best_loss
             /\ (early_stopping'.counter >= early_stopping.patience
                    => early_stopping'.early_stop)
    ]_vars

\* C8: with min_delta = 0 the best_loss printed after each epoch of train is
\* the minimum of the validation losses of the epochs run so far, and it never
\* increases from one early-stopping call to the next.
C8_BestLossIsRunningMin ==
    [][pc = "early_stopping" =>
        /\ early_stopping'.best_loss = min_val'
        /\ early_stopping'.best_loss <= val_loss'
        /\ (early_stopping.best_loss # None =>
                early_stopping'.best_loss <= early_stopping.best_loss)
    ]_vars

\* C8 witness: an epoch whose validation loss was worse than the best so far
\* has been through the early-stopping update, after an earlier improvement.
C8_Witness ==
    /\ pc = "check"
    /\ ncalls >= 3
    /\ early_stopping.counter > 0
    /\ early_stopping.best_loss < val_loss
    /\ best_weights > 1

\* C9 (as claimed): every call train(epochs), epochs >= 0, saves the state_dict
\* exactly once and then returns the training loss and metrics of the last
\* executed epoch.
C9_AlwaysSavesOnceAndReturns ==
    TrainEnded =>
        /\ Len(saves) = 1
        /\ result = "returned"
        /\ train_epoch = Executed

\* C9 (amended): train(epochs) saves exactly once, after the last executed
\* epoch's validation and early-stopping update, on both exit paths and never
\* between epochs, and the saved weights are those after the last epoch; for
\* epochs >= 1 it then returns the training loss and metrics of the last
\* executed epoch, for epochs = 0 it raises UnboundLocalError after the save.
C9_SavesOnceThenReturnsOrRaises ==
    /\ Len(saves) <= 1
    /\ pc \in {"for", "fit", "validate", "early_stopping", "check", "else"}
          => saves = <<>>
    /\ pc \in {"return", "done", "raised"} =>
          /\ Len(saves) = 1
          /\ saves[1] = weights
          /\ weights = Executed
          /\ ncalls = Executed
          /\ model_training = (epochs = 0)
    /\ pc = "return" =>
          /\ last_pc \in {"check", "else"}
          /\ last_pc = "check" => early_stopping.early_stop
          /\ last_pc = "else" => epoch = epochs /\ ~early_stopping.early_stop
    /\ pc = "done" =>
          /\ epochs >= 1
          /\ result = "returned"
          /\ train_loss # Unbound
          /\ train_epoch = Executed
    /\ pc = "raised" => epochs = 0 /\ result = "UnboundLocalError"

\* C9 witness: train has returned through the early-stop path and the weights
\* it saved are not those of the epoch with the best validation loss.
C9_Witness ==
    /\ pc = "done"
    /\ early_stopping.early_stop
    /\ Len(saves) = 1
    /\ saves[1] # best_weights
    /\ Executed < epochs

\* the sum over the passes collected for the current batch, at (k, b)
PassSum(k, b) ==
    SumTo([j \in 1..Len(mc_predictions) |-> mc_predictions[j][k][b]],
          Len(mc_predictions))

\* x and y denote the same real number (both are >= 0)
SameReal(x, y) ==
    x.num * x.num * x.rad * y.den * y.den = y.num * y.num * y.rad * x.den * x.den

\* a test batch has just been scored
JustScored == pc = "mc_batch" /\ last_pc = "mc_pass"

\* C4 (as claimed): for every test batch, report_test_error runs exactly 10
\* forward passes with every nn.Dropout module in training mode and gradients
\* disabled, and the prediction that is scored and returned for the batch is
\* the element-wise mean of those 10 passes; no optimizer step is taken.
C4_ScoredAndReturnedIsMean ==
    /\ pc = "mc_pass" =>
          enc_dropout_training /\ dec_dropout_training /\ ~grad_enabled
    /\ weights = 0
    /\ JustScored =>
          /\ Len(mc_predictions) = NumSamples
          /\ \A b \in BatchElems, k \in Horizon :
                LET mean == Real(PassSum(k, b), NumSamples, 1)
                IN  /\ SameReal(cal_loss_arg[counter][b][k], mean)
                    /\ SameReal(criterion_arg[counter][b][k], mean)
                    /\ SameReal(all_y_pred[counter][b][k], mean)

\* C4 (amended): for every test batch, report_test_error runs exactly 10
\* forward passes with every nn.Dropout module in training mode and gradients
\* disabled; cal_loss scores the element-wise mean of those 10 passes, and
\* the criterion scores, and the method returns, that mean with horizon
\* column i (from 0) multiplied by sqrt(12 - i) by rescale_output; each batch
\* is scored once, no single pass is scored and no optimizer step is taken.
C4_MeanScoredRescaledReturned ==
    /\ pc = "mc_pass" =>
          enc_dropout_training /\ dec_dropout_training /\ ~grad_enabled
    /\ weights = 0
    /\ Len(mc_predictions) <= NumSamples
    /\ Len(cal_loss_arg) = Len(criterion_arg)
    /\ Len(cal_loss_arg) = Len(all_y_pred)
    /\ Len(all_y_pred) = (IF pc = "mc_pass" THEN counter - 1 ELSE counter)
    /\ JustScored =>
          /\ Len(mc_predictions) = NumSamples
          /\ \A b \in BatchElems, k \in Horizon :
                /\ cal_loss_arg[counter][b][k] =
                       [num |-> PassSum(k, b), den |-> 10, rad |-> 1]
                /\ criterion_arg[counter][b][k] =
                       [num |-> PassSum(k, b), den |-> 10, rad |-> 13 - k]
                /\ all_y_pred[counter][b][k] = criterion_arg[counter][b][k]
    /\ pc = "mc_done" => counter = n_batches /\ Len(all_y_pred) = n_batches

\* C4 witness: the method has returned after two batches, and the 10 passes
\* of the last batch were not all equal (dropout was active), so its mean is
\* none of the single passes.
C4_Witness ==
    /\ pc = "mc_done"
    /\ counter = 2
    /\ Len(mc_predictions) = NumSamples
    /\ \E j \in 1..NumSamples : mc_predictions[j] # mc_predictions[1]
    /\ \A j \in 1..NumSamples :
          ~SameReal(cal_loss_arg[counter][1][1],
                    Real(mc_predictions[j][1][1], 1, 1))

\* ----------------------------------------------- claims on Seq2Seq.forward
InDecoder == pc \in {"step", "fwd_done", "fwd_raised"}

\* the decoder row r of element b, without its target channel
Exogenous(batch, b, r) ==
    [j \in 1..(InputDim - 1) |-> batch.dec[b][r][j + 1]]

\* the batch brings a NaN into a recurrent layer: through its encoder input
\* or through an exogenous channel of the decoder rows 1..11
NaNReachesRnn ==
    \E b \in FwdElems(one_batch) :
        \/ \E t \in 1..Len(one_batch.enc[b]) : HasNaN(one_batch.enc[b][t])
        \/ \E r \in 1..(DecSteps - 1) : HasNaN(Exogenous(one_batch, b, r))

\* attention is on and the encoder sequence is not enc_len steps long
WrongEncLen ==
    cfg.attention_ind /\ \E b \in FwdElems(one_batch) :
                            Len(one_batch.enc[b]) # EncLen

\* C1 (as claimed): the input of decode step 1 is the observed row
\* one_batch[2][:, 0, :]; the input of step k in 2..12 is the exogenous
\* channels of row k-1 with the prediction emitted at step k-1; the horizon's
\* target values are never read, so a batch that differs in them only gives
\* the same decoder input at every step.
C1_InputsAreObservedRowThenOwnPredictions ==
    (pc = "step" /\ i <= DecSteps) =>
        /\ \A b \in FwdElems(one_batch) :
              dec.rnn_input[b] =
                  IF i = 1 THEN one_batch.dec[b][0]
                  ELSE Exogenous(one_batch, b, i - 1) \o <<dec.emitted[i - 1][b]>>
        /\ alt.rnn_input = dec.rnn_input

\* C1 (amended): the input of decode step 1 is the observed row
\* one_batch[2][:, 0, :] with every NaN entry replaced by 0; the input of step
\* k in 2..12 is the exogenous channels of row k-1 with the prediction emitted
\* at step k-1; the horizon's target values are never read, so a batch that
\* differs in them only gives the same decoder input at every step.
C1_InputsAreZeroedRowThenOwnPredictions ==
    /\ (pc = "step" /\ i <= DecSteps) =>
        /\ \A b \in FwdElems(one_batch) :
              dec.rnn_input[b] =
                  IF i = 1
                  THEN [j \in 1..InputDim |->
                           IF one_batch.dec[b][0][j] = NaN THEN 0
                           ELSE one_batch.dec[b][0][j]]
                  ELSE Exogenous(one_batch, b, i - 1) \o <<dec.emitted[i - 1][b]>>
        /\ alt.rnn_input = dec.rnn_input
    /\ InDecoder =>
        /\ alt.err = dec.err
        /\ alt.step_input = dec.step_input
        /\ alt.output_list = dec.output_list

\* C1 witness: all 12 steps have run on a batch whose row 0 holds a NaN and
\* on a batch with other horizon targets, and the predictions fed back were
\* not all the same.
C1_Witness ==
    /\ pc = "step" /\ i = DecSteps + 1
    /\ HasNaN(one_batch.dec[1][0])
    /\ \A r \in 1..DecSteps : alt_batch.dec[1][r][1] # one_batch.dec[1][r][1]
    /\ \E k \in 1..DecSteps : dec.emitted[k] # dec.emitted[1]

\* C2 (as claimed): for every configuration and every batch, Seq2Seq.forward
\* runs exactly 12 decode steps and returns shape (12, batch), row k-1 being
\* the prediction emitted at decode step k.
C2_EveryBatchGivesTwelveRows ==
    /\ pc # "fwd_raised"
    /\ pc = "fwd_done" =>
          /\ Len(y_pred) = 12
          /\ DOMAIN dec.emitted = 1..12
          /\ \A k \in 1..12 :
                /\ DOMAIN y_pred[k] = FwdElems(one_batch)
                /\ \A b \in FwdElems(one_batch) : y_pred[k][b] = dec.emitted[k][b]

\* C2 (amended): for every configuration and every batch that brings no NaN
\* into a recurrent layer (none in the encoder input, none in the exogenous
\* channels of decoder rows 1..11) and, when attention is on, has exactly
\* enc_len encoder steps, Seq2Seq.forward runs exactly 12 decode steps and
\* returns shape (12, batch), row k-1 being the prediction emitted at decode
\* step k; on every other batch it raises before it returns anything.
C2_AcceptedBatchGivesTwelveRows ==
    /\ pc = "step" => i \in 1..13
    /\ pc = "fwd_raised" <=>
          (InDecoder /\ dec.err # "none" /\ (NaNReachesRnn \/ WrongEncLen))
    /\ (InDecoder /\ (NaNReachesRnn \/ WrongEncLen)) =>
          (pc # "fwd_done" /\ y_pred = <<>> /\ (pc = "step" => i <= 12))
    /\ pc = "fwd_done" =>
          /\ i = 13
          /\ Len(y_pred) = 12
          /\ DOMAIN dec.emitted = 1..12
          /\ \A k \in 1..12 :
                /\ DOMAIN y_pred[k] = FwdElems(one_batch)
                /\ \A b \in FwdElems(one_batch) : y_pred[k][b] = dec.emitted[k][b]

\* C2 witness: forward has returned for a batch of more than one series in the
\* configuration LSTM, attention, embedding, bidirectional, and the
\* predictions of the steps are not all the same.
C2_Witness ==
    /\ pc = "fwd_done"
    /\ cfg = [GRU_LSTM |-> "LSTM", attention_ind |-> TRUE, embd_dim |-> EmbdDim,
              is_bidirectional |-> TRUE]
    /\ Cardinality(FwdElems(one_batch)) > 1
    /\ dec_dropout_training
    /\ \E k \in 1..12 : y_pred[k] # y_pred[1]

\* C3: the hidden state fed to the decoder RNN at step 1 is the one
\* Encoder.forward returned; the hidden state fed at step k+1 is the one the
\* RNN returned at step k; for LSTM the cell state is zero at step 1 and the
\* cell state returned at step k is fed at step k+1; for GRU the cell state is
\* never modified.
C3_StateThreaded ==
    [][(pc = "step" /\ i <= DecSteps) =>
        /\ i = 1 =>
              /\ dec.hidden = enc_hidden
              /\ \A b \in FwdElems(one_batch) :
                    dec.cell_state[b] = [j \in 1..DecDim |-> 0]
        /\ pc' = "step" =>
              /\ dec'.fed_hidden = dec.hidden
              /\ dec'.fed_cell = dec.cell_state
              /\ dec'.hidden = dec'.ret_hidden
              /\ cfg.GRU_LSTM = "LSTM" => dec'.cell_state = dec'.ret_cell
              /\ cfg.GRU_LSTM = "GRU" => dec'.cell_state = dec.cell_state
    ]_vars

\* C3 witness: an LSTM decoder has run all 12 steps and both states moved
\* away from where they started.
C3_Witness ==
    /\ pc = "step" /\ i = DecSteps + 1
    /\ cfg.GRU_LSTM = "LSTM"
    /\ dec.hidden # enc_hidden
    /\ dec.fed_hidden # enc_hidden
    /\ \E b \in FwdElems(one_batch) : dec.fed_cell[b] # [j \in 1..DecDim |-> 0]

\* C6: in every configuration the tensor fed to the decoder RNN has width
\* dec_input_dim + embd_dim at each decode step; with attention on, each step
\* computes exactly enc_len attention weights per batch element, one per
\* encoder time step, which requires the encoder input sequence to have
\* exactly enc_len steps.
C6_RnnInputWidth ==
    InDecoder =>
        /\ dec.err # "shape"
        /\ dec.fed_input # <<>> =>
              /\ \A b \in FwdElems(one_batch) :
                    Len(dec.fed_input[b]) = InputDim + cfg.embd_dim
              /\ dec.n_attn = (IF cfg.attention_ind THEN EncLen ELSE 0)
              /\ cfg.attention_ind =>
                    \A b \in FwdElems(one_batch) :
                        /\ Len(one_batch.enc[b]) = EncLen
                        /\ Len(encoder_outputs[b]) = dec.n_attn
        /\ dec.err = "bmm" <=> (WrongEncLen /\ pc = "fwd_raised")
        /\ (WrongEncLen /\ i > 1) => pc = "fwd_raised"

\* C6 witness: forward has returned with attention and embedding on.
C6_Witness ==
    /\ pc = "fwd_done"
    /\ cfg.attention_ind
    /\ cfg.embd_dim > 0
    /\ dec.n_attn = EncLen
    /\ Len(dec.fed_input[1]) = InputDim + EmbdDim

====
